---- MODULE Spec2Model ----
(***************************************************************************)
(* Cross-module dead-symbol elimination: the merged module summary index,  *)
(* the liveness worklist of markDeadSymbols with its liveness traces, and  *)
(* the module summary indexer.                                             *)
(***************************************************************************)
EXTENDS Integers, Sequences, FiniteSets, TLC

\* Bound: the amount of non-default data (calls, implementations, set flags,
\* stripped names, type references, a trace symbol) in one merged index.
MaxSize == 3

\* Bound: the amount of data (instructions, set attributes, properties,
\* table entries and their non-default attributes) in one SIL module given
\* to the indexer.
MaxModuleSize == 2

\* ------------------------------------------------------------------ names
\* The unique mangled names of the universe: functions, the method of a
\* protocol and the method of a class, types.
FuncNames == <<"main", "f1", "f2", "f3">>
\* The functions the records of a loaded summary and the SIL modules are
\* drawn from; the last function of FuncNames is that of the call chain
\* main -> f1 -> f2 -> f3 alone.
LoadedFuncNames == SubSeq(FuncNames, 1, 3)
ProtocolMethodNames == <<"P.m">>
ClassMethodNames == <<"C.m">>
TypeNames == <<"T1", "T2">>
UniqueNames ==
  FuncNames \o ProtocolMethodNames \o ClassMethodNames \o TypeNames

Range(s) == {s[i] : i \in 1..Len(s)}

\* GUID of a unique name: a fixed reduction of the name to an integer, the
\* same for the same name, different for the different names of the universe.
getGUIDFromUniqueName(Name) ==
  CHOOSE i \in 1..Len(UniqueNames) : UniqueNames[i] = Name

MainGUID == getGUIDFromUniqueName("main")
FuncGuids == {getGUIDFromUniqueName(n) : n \in Range(FuncNames)}
LoadedFuncGuids == {getGUIDFromUniqueName(n) : n \in Range(LoadedFuncNames)}
\* The declaration GUIDs the loaded records name, under either slot kind.
DeclGuids == {getGUIDFromUniqueName(n) : n \in Range(ProtocolMethodNames)}
TypeGuids == {getGUIDFromUniqueName(n) : n \in Range(TypeNames)}

CallKinds == {"Direct", "VTable", "Witness"}
SlotKinds == {"VTable", "Witness"}
Reasons == {"Preserved", "StaticReferenced", "IndirectReferenced"}

\* The calls a summary may carry: a Direct call names a function GUID, a
\* virtual call the GUID of a method declaration; each with the name of its
\* callee, or with no name.
Calls ==
  {Call \in [kind : CallKinds, callee : LoadedFuncGuids \cup DeclGuids,
             name : Range(UniqueNames) \cup {""}] :
     /\ Call.kind = "Direct" <=> Call.callee \in LoadedFuncGuids
     /\ Call.name \in {UniqueNames[Call.callee], ""}}

VFuncSlots == SlotKinds \X DeclGuids

\* The shared_ptr that holds no node.
NullTrace == 0

\* The input files the tool may be given, and what opening and loading one
\* can come to: no such file, a file that is no module summary, a summary.
MaxInputs == 2
InputNames == <<"a.swiftmodule.summary", "b.swiftmodule.summary",
                "c.swiftmodule.summary">>
FileKinds == {"missing", "invalid", "valid"}

\* How the tool ends: the value returned, or the message of the fatal error.
Running == ""
Return0 == "return 0"
Return1 == "return 1"
InvalidModuleSummary == "Invalid module summary"
NoOutput == <<>>

\* The name the merged index is given.
CombinedName == "combined"

VARIABLES
  functions,          \* ModuleSummaryIndex: GUID -> FunctionSummary
  implementations,    \* ModuleSummaryIndex: VFuncSlot -> set of GUID
  usedTypes,          \* ModuleSummaryIndex: the types markUsedType recorded
  LTOPrintLiveTrace,  \* the -lto-print-live-trace option ("" when not given)
  Mod,                \* the SIL module the indexer is given
  status,             \* sil, indexed, indexer crashed; load, run, done, ...
  pass,               \* "first" or "second" liveness pass over the index
  nodes,              \* the LivenessTrace objects allocated, in allocation order
  Worklist,           \* markDeadSymbols: node ids, back of the vector last
  trace,              \* markDeadSymbols: the node popped last, or NullTrace
  dumpTarget,         \* markDeadSymbols: node id to dump, or NullTrace
  UseMarkedTypes,     \* markDeadSymbols: type GUIDs already marked
  LiveSymbols,        \* markDeadSymbols: counter of functions set live
  dumped,             \* what dump() wrote to the error stream
  liveBefore,         \* history: the GUIDs live when the current pass began
  markCount,          \* history: setLive(true) calls per GUID in this pass
  typeMarks,          \* history: markUsedType calls per type GUID in this pass
  pushes,             \* history: Worklist.push_back calls in this pass
  badGUID,            \* what the lookup of a GUID without summary yielded
  InputFilenames,     \* the positional arguments: the input files, in order
  opened,             \* cross_module_opt_main: the inputs taken from the list
  files,              \* history: what each input taken turned out to be
  exit,               \* how the tool ended, Running while it has not
  OutputFile          \* what writeModuleSummaryIndex wrote, or NoOutput

vars ==
  <<functions, implementations, usedTypes, LTOPrintLiveTrace, Mod, status, pass,
    nodes, Worklist, trace, dumpTarget, UseMarkedTypes, LiveSymbols, dumped,
    liveBefore, markCount, typeMarks, pushes, badGUID, InputFilenames, opened,
    files, exit, OutputFile>>

driverVars == <<InputFilenames, opened, files, exit, OutputFile>>
indexVars == <<functions, implementations, usedTypes>>
runVars ==
  <<nodes, Worklist, trace, dumpTarget, UseMarkedTypes, LiveSymbols, dumped,
    liveBefore, markCount, typeMarks, pushes, badGUID>>

\* ------------------------------------------------------------ the index
Bit(b) == IF b THEN 1 ELSE 0

RECURSIVE SumOver(_, _)
SumOver(S, f) ==
  IF S = {} THEN 0
  ELSE LET x == CHOOSE y \in S : TRUE IN f[x] + SumOver(S \ {x}, f)

\* The non-default data a function summary carries.
SummarySize(FS) ==
  Len(FS.calls) + Len(FS.typeRefs) + Bit(FS.live) + Bit(FS.preserved)
    + Bit(FS.name = "")
    + Cardinality({i \in DOMAIN FS.calls : FS.calls[i].name = ""})

\* The non-default data of an index: an empty slot counts as one record.
IndexSize(funcs, impls) ==
  SumOver(DOMAIN funcs, [g \in DOMAIN funcs |-> SummarySize(funcs[g])])
    + SumOver(DOMAIN impls,
              [s \in DOMAIN impls |->
                 IF impls[s] = {} THEN 1 ELSE Cardinality(impls[s])])

Fits(funcs, impls) ==
  IndexSize(funcs, impls) + Bit(LTOPrintLiveTrace # "") <= MaxSize

\* getFunctionSummary: whether the index has a summary for the GUID.
hasFunctionSummary(guid) == guid \in DOMAIN functions

\* getImplementations: the implementations of a slot, none for a missing slot.
getImplementations(slot) ==
  IF slot \in DOMAIN implementations THEN implementations[slot] ELSE {}

LiveSet == {g \in DOMAIN functions : functions[g].live}

\* ------------------------------------------------- loading the summaries
NewSummary(guid, name, live, preserved) ==
  [guid |-> guid, name |-> name, live |-> live, preserved |-> preserved,
   calls |-> <<>>, typeRefs |-> <<>>]

WithSummary(funcs, FS) ==
  [g \in DOMAIN funcs \cup {FS.guid} |-> IF g = FS.guid THEN FS ELSE funcs[g]]

WithImpls(impls, slot, set) ==
  [s \in DOMAIN impls \cup {slot} |-> IF s = slot THEN set ELSE impls[s]]

\* One FUNC_METADATA record: GUID, live bit, preserved bit, name blob (the
\* name the GUID was computed from, or the empty name of a stripped summary).
LoadFunctionMetadata ==
  /\ status = "load"
  /\ \E n \in Range(LoadedFuncNames), stripped, live, preserved \in BOOLEAN :
       LET guid == getGUIDFromUniqueName(n)
           FS == NewSummary(guid, IF stripped THEN "" ELSE n, live, preserved)
       IN /\ guid \notin DOMAIN functions
          /\ Fits(WithSummary(functions, FS), implementations)
          /\ functions' = WithSummary(functions, FS)
  /\ UNCHANGED driverVars
  /\ UNCHANGED <<implementations, usedTypes, LTOPrintLiveTrace, Mod, status,
                 pass>>
  /\ UNCHANGED runVars

\* One CALL_GRAPH_EDGE record: appended to the calls of its function.
LoadCallGraphEdge ==
  /\ status = "load"
  /\ IndexSize(functions, implementations) < MaxSize
  /\ \E guid \in DOMAIN functions, Call \in Calls :
       LET FS == [functions[guid] EXCEPT !.calls = Append(@, Call)]
       IN /\ Fits(WithSummary(functions, FS), implementations)
          /\ functions' = WithSummary(functions, FS)
  /\ UNCHANGED driverVars
  /\ UNCHANGED <<implementations, usedTypes, LTOPrintLiveTrace, Mod, status,
                 pass>>
  /\ UNCHANGED runVars

\* A type reference of a function summary.
LoadTypeRef ==
  /\ status = "load"
  /\ IndexSize(functions, implementations) < MaxSize
  /\ \E guid \in DOMAIN functions, ty \in TypeGuids :
       LET FS == [functions[guid] EXCEPT !.typeRefs = Append(@, ty)]
       IN /\ Fits(WithSummary(functions, FS), implementations)
          /\ functions' = WithSummary(functions, FS)
  /\ UNCHANGED driverVars
  /\ UNCHANGED <<implementations, usedTypes, LTOPrintLiveTrace, Mod, status,
                 pass>>
  /\ UNCHANGED runVars

\* One METHOD_METADATA record: a slot, with no implementation yet.
LoadMethodMetadata ==
  /\ status = "load"
  /\ IndexSize(functions, implementations) < MaxSize
  /\ \E slot \in VFuncSlots :
       /\ slot \notin DOMAIN implementations
       /\ Fits(functions, WithImpls(implementations, slot, {}))
       /\ implementations' = WithImpls(implementations, slot, {})
  /\ UNCHANGED driverVars
  /\ UNCHANGED <<functions, usedTypes, LTOPrintLiveTrace, Mod, status, pass>>
  /\ UNCHANGED runVars

\* One METHOD_IMPL record: an implementation GUID of a slot.
LoadMethodImpl ==
  /\ status = "load"
  /\ \E slot \in DOMAIN implementations, Impl \in LoadedFuncGuids :
       LET set == implementations[slot] \cup {Impl}
       IN /\ Impl \notin implementations[slot]
          /\ Fits(functions, WithImpls(implementations, slot, set))
          /\ implementations' = WithImpls(implementations, slot, set)
  /\ UNCHANGED driverVars
  /\ UNCHANGED <<functions, usedTypes, LTOPrintLiveTrace, Mod, status, pass>>
  /\ UNCHANGED runVars

\* ------------------------------------------------------- the liveness pass

\* Faulty variant: the preserved summaries are left out of the root set.
computePreservedGUIDs_MainOnly == {MainGUID}

computePreservedGUIDs ==
  {MainGUID} \cup {g \in DOMAIN functions : functions[g].preserved}


LivenessTrace(markedBy, guid, reason) ==
  [markedBy |-> markedBy, symbol |-> "", guid |-> guid, reason |-> reason]


\* Faulty variant: the slot kinds are exchanged.
createVFuncSlot_Swapped(Call) ==
  <<IF Call.kind = "Witness" THEN "VTable" ELSE "Witness", Call.callee>>

createVFuncSlot(Call) == <<Call.kind, Call.callee>>

\* The orders in which a set may be iterated.
Perms(S) ==
  {p \in [1..Cardinality(S) -> S] :
     \A i, j \in 1..Cardinality(S) : p[i] = p[j] => i = j}


\* Faulty variant: only the first implementation the iteration yields is pushed.
CallPushes_FirstImpl(by, Call) ==
  IF Call.kind = "Direct"
  THEN {<<LivenessTrace(by, Call.callee, "StaticReferenced")>>}
  ELSE LET Impls == getImplementations(createVFuncSlot(Call))
       IN IF Impls = {} THEN {<<>>}
          ELSE {<<LivenessTrace(by, g, "IndirectReferenced")>> : g \in Impls}

\* The nodes one call of the function of node `by` pushes, for each
\* iteration order of the slot's implementations.
CallPushes(by, Call) ==
  IF Call.kind = "Direct"
  THEN {<<LivenessTrace(by, Call.callee, "StaticReferenced")>>}
  ELSE LET Impls == getImplementations(createVFuncSlot(Call))
       IN {[i \in 1..Cardinality(Impls) |->
              LivenessTrace(by, p[i], "IndirectReferenced")] :
             p \in Perms(Impls)}


\* Faulty variant: the loop over the calls ends after the first call.
CallsPushes_FirstOnly(by, calls) ==
  IF calls = <<>> THEN {<<>>} ELSE CallPushes(by, Head(calls))

\* The loop over the calls of a function: the nodes pushed, in push order.
RECURSIVE CallsPushes(_, _)
CallsPushes(by, calls) ==
  IF calls = <<>> THEN {<<>>}
  ELSE {h \o t : h \in CallPushes(by, Head(calls)),
                 t \in CallsPushes(by, Tail(calls))}


\* Faulty variant: markUsedType is called for every type reference.
RECURSIVE MarkTypes_NoDedup(_, _)
MarkTypes_NoDedup(typeRefs, acc) ==
  IF typeRefs = <<>> THEN acc
  ELSE LET ty == Head(typeRefs)
       IN MarkTypes_NoDedup(Tail(typeRefs),
            [marked |-> acc.marked \cup {ty},
             used |-> acc.used \cup {ty},
             marks |-> [acc.marks EXCEPT ![ty] = @ + 1]])

\* The typeRefs loop: markUsedType for each type not yet in UseMarkedTypes.
RECURSIVE MarkTypes(_, _)
MarkTypes(typeRefs, acc) ==
  IF typeRefs = <<>> THEN acc
  ELSE LET ty == Head(typeRefs)
           fresh == ty \notin acc.marked
       IN MarkTypes(Tail(typeRefs),
            [marked |-> acc.marked \cup {ty},
             used |-> IF fresh THEN acc.used \cup {ty} ELSE acc.used,
             marks |-> IF fresh
                       THEN [acc.marks EXCEPT ![ty] = @ + 1]
                       ELSE acc.marks])


\* Faulty variant: the live check never skips.
isLive_Never(FS) == FALSE

\* FS->isLive()
isLive(FS) == FS.live


\* Faulty variant: the function set live is made a root as well.
setLive_AndPreserved(funcs, guid) ==
  [funcs EXCEPT ![guid].live = TRUE, ![guid].preserved = TRUE]

\* Faulty variant: the flags are rewritten, live for the summary of `guid` alone.
setLive_OnlyThis(funcs, guid) ==
  [g \in DOMAIN funcs |-> [funcs[g] EXCEPT !.live = (g = guid)]]

\* FS->setLive(true) on the summary of `guid`.
setLive(funcs, guid) == [funcs EXCEPT ![guid].live = TRUE]


\* Faulty variant: a node of a function that is already live is not retained.
RetainedNode_WhenMarking(FS, popped, target) ==
  IF FS.name # "" /\ LTOPrintLiveTrace = FS.name /\ ~FS.live
  THEN popped ELSE target

\* dumpTarget after the node `popped` of the function FS was taken from the
\* worklist: the node, when the function has a name and it is the one of
\* the trace option.
RetainedNode(FS, popped, target) ==
  IF FS.name # "" /\ LTOPrintLiveTrace = FS.name THEN popped ELSE target

\* The seeding loop: one Preserved node per root, in the set's iteration order.
SeedWorklist ==
  \E order \in Perms(computePreservedGUIDs) :
    /\ nodes' = [i \in 1..Len(order) |->
                   LivenessTrace(NullTrace, order[i], "Preserved")]
    /\ Worklist' = [i \in 1..Len(order) |-> i]
    /\ pushes' = Len(order)
    /\ trace' = NullTrace
    /\ dumpTarget' = NullTrace
    /\ UseMarkedTypes' = {}
    /\ LiveSymbols' = 0
    /\ dumped' = <<>>
    /\ liveBefore' = LiveSet
    /\ markCount' = [g \in FuncGuids |-> 0]
    /\ typeMarks' = [t \in TypeGuids |-> 0]
    /\ UNCHANGED badGUID

\* cross_module_opt_main after the inputs are loaded: the roots are computed
\* and markDeadSymbols seeds its worklist.
Start ==
  /\ status = "load"
  /\ opened = Len(InputFilenames)
  /\ status' = "run"
  /\ SeedWorklist
  /\ UNCHANGED driverVars
  /\ UNCHANGED <<functions, implementations, usedTypes, LTOPrintLiveTrace, Mod,
                 pass>>

\* The iteration from line 129 on, with the summary of `found` as FS: the
\* node is named, retained when it is the one of the trace option, and a
\* function that is not live is set live, its types marked and its calls
\* pushed.
Visit(popped, rest, found) ==
  LET FS == functions[found]
      named == FS.name # ""
      traces == IF named
                THEN [nodes EXCEPT ![popped].symbol = FS.name]
                ELSE nodes
      target == RetainedNode(FS, popped, dumpTarget)
  IN /\ status' = status
     /\ dumpTarget' = target
     /\ IF isLive(FS)
        THEN /\ nodes' = traces
             /\ Worklist' = rest
             /\ UNCHANGED <<functions, usedTypes, UseMarkedTypes,
                            LiveSymbols, markCount, typeMarks, pushes>>
        ELSE
          LET types == MarkTypes(FS.typeRefs,
                         [marked |-> UseMarkedTypes,
                          used |-> usedTypes, marks |-> typeMarks])
          IN /\ functions' = setLive(functions, found)
             /\ LiveSymbols' = LiveSymbols + 1
             /\ markCount' = [markCount EXCEPT ![found] = @ + 1]
             /\ UseMarkedTypes' = types.marked
             /\ usedTypes' = types.used
             /\ typeMarks' = types.marks
             /\ \E pushed \in CallsPushes(popped, FS.calls) :
                  /\ nodes' = traces \o pushed
                  /\ Worklist' = rest \o
                       [i \in 1..Len(pushed) |-> Len(nodes) + i]
                  /\ pushes' = pushes + Len(pushed)

\* One iteration of the worklist loop.
Step ==
  /\ status = "run"
  /\ Worklist # <<>>
  /\ LET popped == Worklist[Len(Worklist)]
         rest == SubSeq(Worklist, 1, Len(Worklist) - 1)
         guid == nodes[popped].guid
     IN /\ trace' = popped
        /\ IF hasFunctionSummary(guid)
           THEN Visit(popped, rest, guid) /\ UNCHANGED badGUID
           ELSE IF guid \in DOMAIN badGUID
           THEN \* the lookup of this GUID gives what it gave before: the
                \* map of the summaries has not changed since.
                Visit(popped, rest, badGUID[guid]) /\ UNCHANGED badGUID
           ELSE \* llvm_unreachable("Bad GUID"): the abort of a build with
                \* assertions; undefined behaviour without them, where the
                \* null summary is dereferenced and the run faults, or the
                \* test is dropped, the lookup's result is taken for a
                \* summary and the iteration goes on with the summary of
                \* another function of the index.
                \/ /\ status' \in {"aborted", "crashed"}
                   /\ Worklist' = rest
                   /\ UNCHANGED <<functions, usedTypes, nodes, dumpTarget,
                                  UseMarkedTypes, LiveSymbols, markCount,
                                  typeMarks, pushes, badGUID>>
                \/ \E found \in DOMAIN functions :
                     /\ Visit(popped, rest, found)
                     /\ badGUID' =
                          [g \in DOMAIN badGUID \cup {guid} |->
                             IF g = guid THEN found ELSE badGUID[g]]
  /\ UNCHANGED driverVars
  /\ UNCHANGED <<implementations, LTOPrintLiveTrace, Mod, pass, dumped,
                 liveBefore>>

\* A printed line of dump(): the symbol, or the missing-name text, and the
\* GUID when it is printed.
NoGuid == {}
MissingName == "**missing name**"

\* The while loop of dump(): one line per node of the markedBy chain.
RECURSIVE Referrers(_)
Referrers(target) ==
  IF target = NullTrace THEN <<>>
  ELSE <<[text |-> IF nodes[target].symbol # ""
                   THEN nodes[target].symbol ELSE MissingName,
          guid |-> nodes[target].guid]>>
         \o Referrers(nodes[target].markedBy)

dump(node) ==
  <<IF nodes[node].symbol # ""
    THEN [text |-> nodes[node].symbol, guid |-> NoGuid]
    ELSE [text |-> MissingName, guid |-> nodes[node].guid]>>
    \o Referrers(nodes[node].markedBy)

\* The worklist is empty: the loop ends and the retained node is dumped.
Finish ==
  /\ status = "run"
  /\ Worklist = <<>>
  /\ status' = "done"
  /\ dumped' = IF dumpTarget # NullTrace THEN dump(dumpTarget) ELSE <<>>
  /\ UNCHANGED driverVars
  /\ UNCHANGED <<functions, implementations, usedTypes, LTOPrintLiveTrace, Mod,
                 pass, nodes, Worklist, trace, dumpTarget, UseMarkedTypes,
                 LiveSymbols, liveBefore, markCount, typeMarks, pushes,
                 badGUID>>

\* computePreservedGUIDs and markDeadSymbols run again on the index the first
\* pass left.
Rerun ==
  /\ status = "done"
  /\ pass = "first"
  /\ pass' = "second"
  /\ status' = "run"
  /\ SeedWorklist
  /\ UNCHANGED driverVars
  /\ UNCHANGED <<functions, implementations, usedTypes, LTOPrintLiveTrace, Mod>>

\* --------------------------------------------------------- the file format
\* A BCVBR<16> field: chunks of 15 value bits, the 16th bit set on every
\* chunk but the last.
RECURSIVE EmitVBR16(_)
EmitVBR16(v) ==
  IF v < 2^15 THEN <<v>>
  ELSE <<(v % 2^15) + 2^15>> \o EmitVBR16(v \div 2^15)

RECURSIVE ReadVBR16(_)
ReadVBR16(chunks) ==
  IF Len(chunks) = 1 THEN Head(chunks)
  ELSE (Head(chunks) % 2^15) + 2^15 * ReadVBR16(Tail(chunks))

\* A BCFixed<1> field.
EmitFixed1(v) == v % 2


\* Faulty variant: the kinds are numbered in the order the liveness loop
\* tests them, Witness before VTable.
CallKindCode_WitnessFirst(kind) ==
  CASE kind = "Direct" -> 0 [] kind = "Witness" -> 1 [] kind = "VTable" -> 2

\* FunctionSummary::Edge::Kind in the BCFixed<32> field of an edge.
CallKindCode(kind) ==
  CASE kind = "Direct" -> 0 [] kind = "VTable" -> 1 [] kind = "Witness" -> 2

CallKindOfCode(c) ==
  CASE c = 0 -> "Direct" [] c = 1 -> "VTable" [] c = 2 -> "Witness"
    [] OTHER -> "invalid"

\* VirtualMethodSlot::KindTy in the BCFixed<1> field of a method record.
SlotKindCode(kind) == IF kind = "VTable" THEN 1 ELSE 0
SlotKindOfCode(c) == IF c = 1 THEN "VTable" ELSE "Witness"

ModuleMetadata(name) == [code |-> "MODULE_METADATA", name |-> name]


FuncMetadata(FS) ==
  [code |-> "FUNC_METADATA", guid |-> EmitVBR16(FS.guid),
   live |-> EmitFixed1(Bit(FS.live)),
   preserved |-> EmitFixed1(Bit(FS.preserved)), name |-> FS.name]

CallGraphEdge(Call) ==
  [code |-> "CALL_GRAPH_EDGE", kind |-> CallKindCode(Call.kind),
   target |-> EmitVBR16(Call.callee), name |-> Call.name]

MethodMetadata(slot) ==
  [code |-> "METHOD_METADATA", kind |-> EmitFixed1(SlotKindCode(slot[1])),
   guid |-> EmitVBR16(slot[2])]

MethodImpl(guid) == [code |-> "METHOD_IMPL", guid |-> EmitVBR16(guid)]

\* The elements of a set of numbers, ascending.
RECURSIVE Ascending(_)
Ascending(S) ==
  IF S = {} THEN <<>>
  ELSE LET least == CHOOSE x \in S : \A y \in S : x <= y
       IN <<least>> \o Ascending(S \ {least})

\* The slots of a map, by kind and then by GUID.
SlotOrder(impls) ==
  LET of(kind) == Ascending({slot[2] : slot \in
                               {t \in DOMAIN impls : t[1] = kind}})
  IN [i \in 1..Len(of("Witness")) |-> <<"Witness", of("Witness")[i]>>]
       \o [i \in 1..Len(of("VTable")) |-> <<"VTable", of("VTable")[i]>>]

RECURSIVE FunctionGroups(_, _)
FunctionGroups(funcs, order) ==
  IF order = <<>> THEN <<>>
  ELSE LET FS == funcs[Head(order)]
       IN <<FuncMetadata(FS)>>
            \o [i \in DOMAIN FS.calls |-> CallGraphEdge(FS.calls[i])]
            \o FunctionGroups(funcs, Tail(order))

RECURSIVE MethodGroups(_, _)
MethodGroups(impls, order) ==
  IF order = <<>> THEN <<>>
  ELSE LET Impls == Ascending(impls[Head(order)])
       IN <<MethodMetadata(Head(order))>>
            \o [i \in DOMAIN Impls |-> MethodImpl(Impls[i])]
            \o MethodGroups(impls, Tail(order))

\* writeModuleSummaryIndex: the records of a summary file.
Serialize(name, funcs, impls) ==
  <<ModuleMetadata(name)>>
    \o FunctionGroups(funcs, Ascending(DOMAIN funcs))
    \o MethodGroups(impls, SlotOrder(impls))

\* The reader before the first record: nothing read, no current function
\* and no current slot.
EmptyReader ==
  [error |-> FALSE, phase |-> "start", moduleName |-> "", functions |-> <<>>,
   implementations |-> <<>>, CurrentFunc |-> <<>>, CurrentSlot |-> <<>>]

FormatError(R) == [R EXCEPT !.error = TRUE]

\* The reader after one more record; a record out of its place, or an edge
\* kind out of range, is a format error.
ReadRecord(R, rec) ==
  CASE R.error -> R
    [] rec.code = "MODULE_METADATA" ->
         IF R.phase # "start" THEN FormatError(R)
         ELSE [R EXCEPT !.phase = "functions", !.moduleName = rec.name]
    [] rec.code = "FUNC_METADATA" ->
         IF R.phase # "functions" THEN FormatError(R)
         ELSE LET guid == ReadVBR16(rec.guid)
                  FS == NewSummary(guid, rec.name, rec.live = 1,
                                   rec.preserved = 1)
              IN [R EXCEPT !.functions = WithSummary(@, FS),
                           !.CurrentFunc = <<guid>>]
    [] rec.code = "CALL_GRAPH_EDGE" ->
         IF R.phase # "functions" \/ R.CurrentFunc = <<>>
              \/ CallKindOfCode(rec.kind) = "invalid"
         THEN FormatError(R)
         ELSE [R EXCEPT !.functions[R.CurrentFunc[1]].calls =
                 Append(@, [kind |-> CallKindOfCode(rec.kind),
                            callee |-> ReadVBR16(rec.target),
                            name |-> rec.name])]
    [] rec.code = "METHOD_METADATA" ->
         IF R.phase \notin {"functions", "methods"} THEN FormatError(R)
         ELSE LET slot == <<SlotKindOfCode(rec.kind), ReadVBR16(rec.guid)>>
              IN [R EXCEPT !.phase = "methods",
                           !.implementations =
                             WithImpls(@, slot,
                               IF slot \in DOMAIN @ THEN @[slot] ELSE {}),
                           !.CurrentSlot = <<slot>>]
    [] rec.code = "METHOD_IMPL" ->
         IF R.phase # "methods" \/ R.CurrentSlot = <<>> THEN FormatError(R)
         ELSE [R EXCEPT !.implementations[R.CurrentSlot[1]] =
                 @ \cup {ReadVBR16(rec.guid)}]
    [] OTHER -> FormatError(R)

\* loadModuleSummaryIndex: the records of a file read in order.
RECURSIVE ReadRecords(_, _)
ReadRecords(R, records) ==
  IF records = <<>> THEN R
  ELSE ReadRecords(ReadRecord(R, Head(records)), Tail(records))

Deserialize(records) ==
  LET R == ReadRecords(EmptyReader, records)
  IN IF R.phase = "start" THEN FormatError(R) ELSE R

\* ------------------------------------------------------------- the driver
\* cross_module_opt_main before the loop over the inputs: an empty input
\* list is diagnosed and the tool returns 1.
CheckInputs ==
  /\ status = "args"
  /\ IF InputFilenames = <<>>
     THEN status' = "exited" /\ exit' = Return1
     ELSE status' = "open" /\ exit' = exit
  /\ UNCHANGED <<InputFilenames, opened, files, OutputFile>>
  /\ UNCHANGED <<functions, implementations, usedTypes, LTOPrintLiveTrace, Mod,
                 pass>>
  /\ UNCHANGED runVars


\* Faulty variant: a missing input is passed over and the loop goes on.
InputResult_SkipMissing(kind) ==
  IF kind = "invalid" THEN InvalidModuleSummary ELSE Running

\* How one turn of the loop over the inputs ends for a file of the kind.
InputResult(kind) ==
  CASE kind = "missing" -> Return1
    [] kind = "invalid" -> InvalidModuleSummary
    [] kind = "valid" -> Running

\* One turn of the loop over the inputs: the file is missing (diagnosed,
\* return 1), or it does not load (report_fatal_error), or its records are
\* loaded into the combined index.
OpenInput ==
  /\ status \in {"open", "load"}
  /\ opened < Len(InputFilenames)
  /\ opened' = opened + 1
  /\ \E kind \in FileKinds :
       /\ files' = Append(files, kind)
       /\ exit' = InputResult(kind)
       /\ status' = IF InputResult(kind) = Running THEN "load" ELSE "exited"
  /\ UNCHANGED <<InputFilenames, OutputFile>>
  /\ UNCHANGED <<functions, implementations, usedTypes, LTOPrintLiveTrace, Mod,
                 pass>>
  /\ UNCHANGED runVars

\* After markDeadSymbols has returned: the combined index is written and the
\* tool returns 0.
WriteOutput ==
  /\ status = "done"
  /\ exit = Running
  /\ status' = "exited"
  /\ OutputFile' = [moduleName |-> CombinedName,
                    functions |-> functions,
                    implementations |-> implementations,
                    usedTypes |-> usedTypes,
                    records |-> Serialize(CombinedName, functions,
                                          implementations)]
  /\ exit' = Return0
  /\ UNCHANGED <<InputFilenames, opened, files>>
  /\ UNCHANGED <<functions, implementations, usedTypes, LTOPrintLiveTrace, Mod,
                 pass>>
  /\ UNCHANGED runVars

\* The file the tool wrote is read back as a summary: a fresh index with
\* the functions and implementations of its records.
ReadOutput ==
  /\ status = "exited"
  /\ exit = Return0
  /\ LET R == Deserialize(OutputFile.records)
     IN /\ status' = IF R.error THEN "invalid" ELSE "reloaded"
        /\ functions' = R.functions
        /\ implementations' = R.implementations
        /\ usedTypes' = {}
  /\ UNCHANGED driverVars
  /\ UNCHANGED <<LTOPrintLiveTrace, Mod, pass>>
  /\ UNCHANGED runVars

\* ------------------------------------------------------------ the indexer
\* The module being compiled, and the modules a declaration may live in.
ThisModule == "M"
ModuleNames == {"M", "Other"}

\* The null witness of a witness table entry; a property without component.
NoWitness == ""
NoComponent == <<>>

EmptyModule ==
  [functions |-> <<>>, properties |-> <<>>, witnessTables |-> <<>>,
   vtables |-> <<>>]

DeclaredNames(M) == {M.functions[i].name : i \in DOMAIN M.functions}

\* A key-path component: the functions and the methods it references.
Components(M) ==
  {[functions |-> <<f>>, methods |-> <<>>] : f \in DeclaredNames(M)}
    \cup {[functions |-> <<>>, methods |-> <<m>>] :
            m \in Range(ProtocolMethodNames) \cup Range(ClassMethodNames)}

\* The instructions that reference functions or methods.
Instructions(M) ==
  [op : {"function_ref"}, ref : DeclaredNames(M)]
    \cup [op : {"witness_method"}, ref : Range(ProtocolMethodNames)]
    \cup [op : {"class_method"}, ref : Range(ClassMethodNames)]
    \cup [op : {"keypath"}, ref : Components(M)]

WitnessEntries(M) ==
  [kind : {"Method"}, requirement : Range(ProtocolMethodNames),
   witness : DeclaredNames(M) \cup {NoWitness}]
    \cup [kind : {"AssociatedType"}, requirement : {""}, witness : {NoWitness}]

\* A v-table entry: the method (mangled name, SILDeclRef kind, module of
\* its declaration), the implementation and the entry kind.
VTableEntries(M) ==
  [method : [decl : Range(ClassMethodNames),
             kind : {"Func", "Deallocator", "IVarDestroyer"},
             module : ModuleNames],
   impl : DeclaredNames(M),
   kind : {"Normal", "Inherited", "Override"}]

RECURSIVE SumSeq(_)
SumSeq(s) == IF s = <<>> THEN 0 ELSE Head(s) + SumSeq(Tail(s))

Max(a, b) == IF a >= b THEN a ELSE b

\* An entry counts one for each attribute that is not the plain one (a Func
\* method, declared in this module, a Normal entry), and at least one.
VTableSize(VT) ==
  SumSeq([i \in DOMAIN VT |->
            Max(1, Bit(VT[i].method.kind # "Func")
                     + Bit(VT[i].method.module # ThisModule)
                     + Bit(VT[i].kind # "Normal"))])

ModuleSize(M) ==
  SumSeq([i \in DOMAIN M.functions |->
            Len(M.functions[i].insts) + Bit(M.functions[i].objc)
              + Bit(M.functions[i].cref)])
    + Len(M.properties)
    + SumSeq([i \in DOMAIN M.witnessTables |->
                Max(1, Len(M.witnessTables[i].entries))])
    + SumSeq([i \in DOMAIN M.vtables |-> VTableSize(M.vtables[i])])

NameIndex(n) == CHOOSE i \in DOMAIN FuncNames : FuncNames[i] = n

\* A function of the module: its name, whether its representation is
\* ObjCMethod, whether it has C references; declared in the order of
\* FuncNames.
SilFunction ==
  /\ status = "sil"
  /\ \E n \in Range(LoadedFuncNames), objc, cref \in BOOLEAN :
       LET F == [name |-> n, objc |-> objc, cref |-> cref, insts |-> <<>>]
           M == [Mod EXCEPT !.functions = Append(@, F)]
       IN /\ \A d \in DeclaredNames(Mod) : NameIndex(d) < NameIndex(n)
          /\ ModuleSize(M) <= MaxModuleSize
          /\ Mod' = M
  /\ UNCHANGED driverVars
  /\ UNCHANGED <<functions, implementations, usedTypes, LTOPrintLiveTrace,
                 status, pass>>
  /\ UNCHANGED runVars

\* An instruction of the function declared last.
SilInstruction ==
  /\ status = "sil"
  /\ Mod.functions # <<>>
  /\ ModuleSize(Mod) < MaxModuleSize
  /\ \E I \in Instructions(Mod) :
       LET M == [Mod EXCEPT
                   !.functions[Len(Mod.functions)].insts = Append(@, I)]
       IN /\ ModuleSize(M) <= MaxModuleSize
          /\ Mod' = M
  /\ UNCHANGED driverVars
  /\ UNCHANGED <<functions, implementations, usedTypes, LTOPrintLiveTrace,
                 status, pass>>
  /\ UNCHANGED runVars

\* A key-path property descriptor of the module.
SilProperty ==
  /\ status = "sil"
  /\ ModuleSize(Mod) < MaxModuleSize
  /\ \E c \in Components(Mod) \cup {NoComponent} :
       LET M == [Mod EXCEPT !.properties = Append(@, [component |-> c])]
       IN /\ ModuleSize(M) <= MaxModuleSize
          /\ Mod' = M
  /\ UNCHANGED driverVars
  /\ UNCHANGED <<functions, implementations, usedTypes, LTOPrintLiveTrace,
                 status, pass>>
  /\ UNCHANGED runVars

\* A witness table of the module: the module of its conformance and the
\* module of its protocol.
SilWitnessTable ==
  /\ status = "sil"
  /\ ModuleSize(Mod) < MaxModuleSize
  /\ \E conf, proto \in ModuleNames :
       LET WT == [conformanceModule |-> conf, protocolModule |-> proto,
                  entries |-> <<>>]
           M == [Mod EXCEPT !.witnessTables = Append(@, WT)]
       IN /\ ModuleSize(M) <= MaxModuleSize
          /\ Mod' = M
  /\ UNCHANGED driverVars
  /\ UNCHANGED <<functions, implementations, usedTypes, LTOPrintLiveTrace,
                 status, pass>>
  /\ UNCHANGED runVars

\* An entry of the witness table declared last.
SilWitnessEntry ==
  /\ status = "sil"
  /\ Mod.witnessTables # <<>>
  /\ \E e \in WitnessEntries(Mod) :
       LET M == [Mod EXCEPT
                   !.witnessTables[Len(Mod.witnessTables)].entries =
                     Append(@, e)]
       IN /\ ModuleSize(M) <= MaxModuleSize
          /\ Mod' = M
  /\ UNCHANGED driverVars
  /\ UNCHANGED <<functions, implementations, usedTypes, LTOPrintLiveTrace,
                 status, pass>>
  /\ UNCHANGED runVars

\* An entry of a new v-table, or of the v-table declared last.
SilVTableEntry ==
  /\ status = "sil"
  /\ ModuleSize(Mod) < MaxModuleSize
  /\ \E e \in VTableEntries(Mod), fresh \in BOOLEAN :
       LET M == IF fresh
                THEN [Mod EXCEPT !.vtables = Append(@, <<e>>)]
                ELSE [Mod EXCEPT !.vtables[Len(Mod.vtables)] = Append(@, e)]
       IN /\ fresh \/ Mod.vtables # <<>>
          /\ ModuleSize(M) <= MaxModuleSize
          /\ Mod' = M
  /\ UNCHANGED driverVars
  /\ UNCHANGED <<functions, implementations, usedTypes, LTOPrintLiveTrace,
                 status, pass>>
  /\ UNCHANGED runVars

\* A GUID that is the hash of no name of the universe.
GarbageGUID == Len(UniqueNames) + 1
GarbageName == "?"

\* indexDirectFunctionCall: a Direct call to the GUID of the callee's name.
indexDirectFunctionCall(calls, Callee) ==
  Append(calls, [kind |-> "Direct", callee |-> getGUIDFromUniqueName(Callee),
                 name |-> Callee])

\* What getGUIDFromUniqueName can hash in indexIndirectFunctionCall:
\* mangledName refers to the string Callee.mangle() returned, which is
\* destroyed before it is read. The bytes read are undefined: those of the
\* name still, those of another name, or those of no name.
MangledGUIDs(Callee) ==
  {getGUIDFromUniqueName(Callee)}
    \cup (1..Len(UniqueNames)) \cup {GarbageGUID}

\* The bytes read for the GUID, as the name of the call.
MangledName(guid) ==
  IF guid = GarbageGUID THEN GarbageName ELSE UniqueNames[guid]

\* indexIndirectFunctionCall: the call lists the summary may have after it.
indexIndirectFunctionCall(calls, Callee, Kind) ==
  {Append(calls, [kind |-> Kind, callee |-> guid, name |-> MangledName(guid)]) :
     guid \in MangledGUIDs(Callee)}

\* The slot kind of a method referenced by a key path: by the context that
\* declares it, a class or a protocol.
KeyPathMethodKind(decl) ==
  CASE decl \in Range(ClassMethodNames) -> "VTable"
    [] decl \in Range(ProtocolMethodNames) -> "Witness"

RECURSIVE indexKeyPathFunctions(_, _)
indexKeyPathFunctions(calls, fs) ==
  IF fs = <<>> THEN calls
  ELSE indexKeyPathFunctions(indexDirectFunctionCall(calls, Head(fs)),
                             Tail(fs))

RECURSIVE indexKeyPathMethods(_, _)
indexKeyPathMethods(calls, ms) ==
  IF ms = <<>> THEN {calls}
  ELSE UNION {indexKeyPathMethods(c, Tail(ms)) :
                c \in indexIndirectFunctionCall(
                        calls, Head(ms), KeyPathMethodKind(Head(ms)))}

\* The call lists a summary may have after one more instruction.
indexInstruction(calls, I) ==
  CASE I.op = "function_ref" -> {indexDirectFunctionCall(calls, I.ref)}
    [] I.op = "witness_method" ->
         indexIndirectFunctionCall(calls, I.ref, "Witness")
    [] I.op = "class_method" ->
         indexIndirectFunctionCall(calls, I.ref, "VTable")
    [] I.op = "keypath" ->
         indexKeyPathMethods(
           indexKeyPathFunctions(calls, I.ref.functions), I.ref.methods)

RECURSIVE indexInstructions(_, _)
indexInstructions(calls, insts) ==
  IF insts = <<>> THEN {calls}
  ELSE UNION {indexInstructions(c, Tail(insts)) :
                c \in indexInstruction(calls, Head(insts))}

shouldPreserveFunction(F) == F.objc \/ F.cref

\* indexFunction: the summaries it may leave in TheSummary.
indexFunction(F) ==
  {[guid |-> getGUIDFromUniqueName(F.name), name |-> F.name, live |-> FALSE,
    preserved |-> shouldPreserveFunction(F),
    calls |-> calls, typeRefs |-> <<>>] :
     calls \in indexInstructions(<<>>, F.insts)}

\* The loop over the functions of the module: one summary each.
RECURSIVE indexFunctions(_, _)
indexFunctions(S, Fs) ==
  IF Fs = <<>> THEN {S}
  ELSE UNION {indexFunctions(
                [S EXCEPT !.functions =
                   WithSummary(@, [FS EXCEPT
                     !.preserved = shouldPreserveFunction(Head(Fs))])],
                Tail(Fs)) :
                FS \in indexFunction(Head(Fs))}

\* ensurePreserved(const SILFunction &)
ensurePreservedFunction(S, name) ==
  [S EXCEPT !.functions[getGUIDFromUniqueName(name)].preserved = TRUE]

\* ensurePreserved(const SILDeclRef &, KindTy): the implementations the
\* summary has for the slot, each set preserved.
ensurePreservedMethod(S, decl, kind) ==
  LET slot == <<kind, getGUIDFromUniqueName(decl)>>
      Impls == IF slot \in DOMAIN S.implementations
               THEN S.implementations[slot] ELSE {}
  IN [S EXCEPT !.functions =
        [g \in DOMAIN @ |->
           IF g \in Impls THEN [@[g] EXCEPT !.preserved = TRUE] ELSE @[g]]]

RECURSIVE preserveFunctions(_, _)
preserveFunctions(S, fs) ==
  IF fs = <<>> THEN S
  ELSE preserveFunctions(ensurePreservedFunction(S, Head(fs)), Tail(fs))

RECURSIVE preserveMethods(_, _)
preserveMethods(S, ms) ==
  IF ms = <<>> THEN S
  ELSE preserveMethods(
         ensurePreservedMethod(S, Head(ms), KeyPathMethodKind(Head(ms))),
         Tail(ms))

preserveKeyPathFunctions(S, P) ==
  IF P.component = NoComponent THEN S
  ELSE preserveMethods(preserveFunctions(S, P.component.functions),
                       P.component.methods)

RECURSIVE preserveProperties(_, _)
preserveProperties(S, Ps) ==
  IF Ps = <<>> THEN S
  ELSE preserveProperties(preserveKeyPathFunctions(S, Head(Ps)), Tail(Ps))

\* addImplementation
addImplementation(S, slot, guid) ==
  [S EXCEPT !.implementations =
     WithImpls(@, slot,
       (IF slot \in DOMAIN @ THEN @[slot] ELSE {}) \cup {guid})]

RECURSIVE indexWitnessEntries(_, _, _)
indexWitnessEntries(S, isPossibllyUsedExternally, entries) ==
  IF entries = <<>> THEN S
  ELSE LET entry == Head(entries)
           added == addImplementation(S,
                      <<"Witness", getGUIDFromUniqueName(entry.requirement)>>,
                      getGUIDFromUniqueName(entry.witness))
           S1 == IF entry.kind # "Method" \/ entry.witness = NoWitness THEN S
                 ELSE IF isPossibllyUsedExternally
                      THEN ensurePreservedFunction(added, entry.witness)
                      ELSE added
       IN indexWitnessEntries(S1, isPossibllyUsedExternally, Tail(entries))


\* Faulty variant: a table counts as used externally only when both the
\* conformance and the protocol are of another module.
indexWitnessTable_BothExternal(S, WT) ==
  indexWitnessEntries(S,
    WT.conformanceModule # ThisModule /\ WT.protocolModule # ThisModule,
    WT.entries)

indexWitnessTable(S, WT) ==
  indexWitnessEntries(S,
    WT.conformanceModule # ThisModule \/ WT.protocolModule # ThisModule,
    WT.entries)

RECURSIVE indexWitnessTables(_, _)
indexWitnessTables(S, WTs) ==
  IF WTs = <<>> THEN S
  ELSE indexWitnessTables(indexWitnessTable(S, Head(WTs)), Tail(WTs))

RECURSIVE indexVTable(_, _)
indexVTable(S, VT) ==
  IF VT = <<>> THEN S
  ELSE LET entry == Head(VT)
           S1 == IF entry.method.kind \in {"Deallocator", "IVarDestroyer"}
                 THEN ensurePreservedFunction(S, entry.impl) ELSE S
           isExternalMethod == entry.method.module # ThisModule
           S2 == IF entry.kind = "Override" /\ isExternalMethod
                 THEN ensurePreservedFunction(S1, entry.impl) ELSE S1
       IN indexVTable(
            addImplementation(S2,
              <<"VTable", getGUIDFromUniqueName(entry.method.decl)>>,
              getGUIDFromUniqueName(entry.impl)),
            Tail(VT))

RECURSIVE indexVTables(_, _)
indexVTables(S, VTs) ==
  IF VTs = <<>> THEN S
  ELSE indexVTables(indexVTable(S, Head(VTs)), Tail(VTs))

\* indexModule: the summaries of the functions, then the key-path
\* properties, then the witness tables, then the v-tables; the indexes it
\* may leave.
indexModule(M) ==
  {indexVTables(
     indexWitnessTables(preserveProperties(S, M.properties), M.witnessTables),
     M.vtables) :
     S \in indexFunctions([functions |-> <<>>, implementations |-> <<>>],
                          M.functions)}

\* Whether indexing the module goes through indexIndirectFunctionCall.
IndexesIndirectCall(M) ==
  \E i \in DOMAIN M.functions : \E j \in DOMAIN M.functions[i].insts :
    LET I == M.functions[i].insts[j]
    IN \/ I.op \in {"witness_method", "class_method"}
       \/ I.op = "keypath" /\ I.ref.methods # <<>>

\* The indexer stopped at the read of a destroyed name.
IndexerCrashed == "indexer crashed"

\* buildModuleSummaryIndex on the module: an index, or the fault of the read
\* of a destroyed name.
IndexModule ==
  /\ status = "sil"
  /\ \/ /\ status' = "indexed"
        /\ \E TheSummary \in indexModule(Mod) :
             /\ functions' = TheSummary.functions
             /\ implementations' = TheSummary.implementations
     \/ /\ IndexesIndirectCall(Mod)
        /\ status' = IndexerCrashed
        /\ UNCHANGED <<functions, implementations>>
  /\ UNCHANGED driverVars
  /\ UNCHANGED <<usedTypes, LTOPrintLiveTrace, Mod, pass>>
  /\ UNCHANGED runVars

\* The summary the indexer made of the module is the one input of the tool:
\* it is loaded as the combined index.
LoadIndexed ==
  /\ status = "indexed"
  /\ status' = "load"
  /\ InputFilenames' = <<InputNames[1]>>
  /\ opened' = 1
  /\ files' = <<"valid">>
  /\ UNCHANGED <<exit, OutputFile>>
  /\ UNCHANGED <<functions, implementations, usedTypes, LTOPrintLiveTrace, Mod,
                 pass>>
  /\ UNCHANGED runVars

\* The state before the indexer is given a module.
IndexInit ==
  /\ functions = <<>>
  /\ implementations = <<>>
  /\ usedTypes = {}
  /\ LTOPrintLiveTrace = ""
  /\ status = "sil"
  /\ Mod = EmptyModule
  /\ pass = "first"
  /\ nodes = <<>>
  /\ Worklist = <<>>
  /\ trace = NullTrace
  /\ dumpTarget = NullTrace
  /\ UseMarkedTypes = {}
  /\ LiveSymbols = 0
  /\ dumped = <<>>
  /\ liveBefore = {}
  /\ markCount = [g \in FuncGuids |-> 0]
  /\ typeMarks = [t \in TypeGuids |-> 0]
  /\ pushes = 0
  /\ badGUID = <<>>
  /\ InputFilenames = <<>>
  /\ opened = 0
  /\ files = <<>>
  /\ exit = Running
  /\ OutputFile = NoOutput

IndexNext ==
  \/ SilFunction
  \/ SilInstruction
  \/ SilProperty
  \/ SilWitnessTable
  \/ SilWitnessEntry
  \/ SilVTableEntry
  \/ IndexModule

\* The indexer on every module within the bound.
IndexSpec == IndexInit /\ [][IndexNext]_vars

\* The merged index of the call chain main -> f1 -> f2 -> f3: each
\* function with one Direct call, named, to the next; nothing live, nothing
\* preserved.
CallChain ==
  LET Position(g) ==
        CHOOSE i \in DOMAIN FuncNames :
          getGUIDFromUniqueName(FuncNames[i]) = g
      Next(g) == FuncNames[Position(g) + 1]
  IN [g \in FuncGuids |->
        [NewSummary(g, UniqueNames[g], FALSE, FALSE) EXCEPT
           !.calls = IF Position(g) < Len(FuncNames)
                     THEN <<[kind |-> "Direct",
                             callee |-> getGUIDFromUniqueName(Next(g)),
                             name |-> Next(g)]>>
                     ELSE <<>>]]

\* The state before the tool loads its inputs, or with the summaries of the
\* call chain loaded and the last function of the chain as the trace symbol.
Init ==
  /\ \/ /\ functions = <<>>
        /\ LTOPrintLiveTrace \in {""} \cup Range(LoadedFuncNames)
     \/ /\ functions = CallChain
        /\ LTOPrintLiveTrace = FuncNames[Len(FuncNames)]
  /\ implementations = <<>>
  /\ usedTypes = {}
  /\ status = "load"
  /\ Mod = EmptyModule
  /\ pass = "first"
  /\ nodes = <<>>
  /\ Worklist = <<>>
  /\ trace = NullTrace
  /\ dumpTarget = NullTrace
  /\ UseMarkedTypes = {}
  /\ LiveSymbols = 0
  /\ dumped = <<>>
  /\ liveBefore = {}
  /\ markCount = [g \in FuncGuids |-> 0]
  /\ typeMarks = [t \in TypeGuids |-> 0]
  /\ pushes = 0
  /\ badGUID = <<>>
  /\ InputFilenames = <<InputNames[1]>>
  /\ opened = 1
  /\ files = <<"valid">>
  /\ exit = Running
  /\ OutputFile = NoOutput

Next ==
  \/ LoadFunctionMetadata
  \/ LoadCallGraphEdge
  \/ LoadTypeRef
  \/ LoadMethodMetadata
  \/ LoadMethodImpl
  \/ Start
  \/ Step
  \/ Finish
  \/ Rerun

Spec == Init /\ [][Next]_vars

\* One pass of markDeadSymbols with no trace symbol configured: the loop
\* alone, which neither reads the trace option nor depends on a later pass.
\* The summaries carry no type references: the worklist does not depend on
\* them.
LoopInit == Init /\ LTOPrintLiveTrace = ""

LoopNext ==
  \/ LoadFunctionMetadata
  \/ LoadCallGraphEdge
  \/ LoadMethodMetadata
  \/ LoadMethodImpl
  \/ Start
  \/ Step
  \/ Finish

\* A module with functions, calls and v-tables is indexed and the liveness
\* pass runs over its summary.
PipelineNext ==
  \/ SilFunction
  \/ SilInstruction
  \/ SilVTableEntry
  \/ IndexModule
  \/ LoadIndexed
  \/ Start
  \/ Step
  \/ Finish

PipelineSpec == IndexInit /\ [][PipelineNext]_vars

\* The tool from its command line on: any number of inputs within the
\* bound, each found missing, invalid or valid when it is opened; no trace
\* symbol; the summaries and direct calls of the valid inputs.
DriverInit ==
  /\ functions = <<>>
  /\ implementations = <<>>
  /\ usedTypes = {}
  /\ LTOPrintLiveTrace = ""
  /\ status = "args"
  /\ Mod = EmptyModule
  /\ pass = "first"
  /\ nodes = <<>>
  /\ Worklist = <<>>
  /\ trace = NullTrace
  /\ dumpTarget = NullTrace
  /\ UseMarkedTypes = {}
  /\ LiveSymbols = 0
  /\ dumped = <<>>
  /\ liveBefore = {}
  /\ markCount = [g \in FuncGuids |-> 0]
  /\ typeMarks = [t \in TypeGuids |-> 0]
  /\ pushes = 0
  /\ badGUID = <<>>
  /\ \E n \in 0..MaxInputs : InputFilenames = SubSeq(InputNames, 1, n)
  /\ opened = 0
  /\ files = <<>>
  /\ exit = Running
  /\ OutputFile = NoOutput

DriverNext ==
  \/ CheckInputs
  \/ OpenInput
  \/ LoadFunctionMetadata
  \/ LoadCallGraphEdge
  \/ Start
  \/ Step
  \/ Finish
  \/ WriteOutput

DriverSpec == DriverInit /\ [][DriverNext]_vars

\* Summaries of every kind of record are loaded, the liveness pass runs, the
\* combined index is written and the file is read back. The summaries carry
\* no type references: the format has no record for them.
FormatNext ==
  \/ LoadFunctionMetadata
  \/ LoadCallGraphEdge
  \/ LoadMethodMetadata
  \/ LoadMethodImpl
  \/ Start
  \/ Step
  \/ Finish
  \/ WriteOutput
  \/ ReadOutput

FormatSpec == LoopInit /\ [][FormatNext]_vars

\* The liveness pass is one sequential loop: an enabled iteration is taken.
FairSpec ==
  LoopInit /\ [][LoopNext]_vars
    /\ WF_vars(Start) /\ WF_vars(Step) /\ WF_vars(Finish)

\* ---------------------------------------------------- reachability
Errors == {"aborted", "crashed"}

\* The root set: the preserved summaries and the GUID of "main".
Roots ==
  {getGUIDFromUniqueName("main")}
    \cup {g \in DOMAIN functions : functions[g].preserved}

\* Where a call leads: a Direct call to its callee, a Witness/VTable call to
\* each GUID in implementations[(kind, callee)].
CallTargets(Call) ==
  IF Call.kind = "Direct" THEN {Call.callee}
  ELSE IF <<Call.kind, Call.callee>> \in DOMAIN implementations
       THEN implementations[<<Call.kind, Call.callee>>]
       ELSE {}

Callees(g) ==
  UNION {CallTargets(functions[g].calls[i]) : i \in DOMAIN functions[g].calls}

\* The GUIDs call chains from S lead to, chains not continuing through the
\* functions of `stop`.
RECURSIVE Closure(_, _)
Closure(S, stop) ==
  LET next == S \cup UNION {Callees(g) : g \in (S \cap DOMAIN functions) \ stop}
  IN IF next = S THEN S ELSE Closure(next, stop)

Reachable == Closure(Roots, {})

\* The nodes one expansion of g pushes.
Fanout(g) ==
  SumOver(DOMAIN functions[g].calls,
          [i \in DOMAIN functions[g].calls |->
             Cardinality(CallTargets(functions[g].calls[i]))])

Measure ==
  Len(Worklist)
    + SumOver({g \in DOMAIN functions : ~functions[g].live},
              [g \in DOMAIN functions |-> Fanout(g) + 1])

PushBound ==
  /\ \A g \in FuncGuids : markCount[g] <= 1
  /\ pushes <= Cardinality(Roots)
       + SumOver(DOMAIN functions, [g \in DOMAIN functions |-> Fanout(g)])

\* The nodes already popped from the worklist.
Popped == {i \in DOMAIN nodes : i \notin Range(Worklist)}

FirstPassFromDead == pass = "first" /\ liveBefore = {}

\* ---------------------------------------------------------------- claims

C2_ReachabilityCompleteness ==
  (status = "done" /\ FirstPassFromDead)
    => (Reachable \cap DOMAIN functions) \subseteq LiveSet

\* A finished pass over main -> g -> h with main the only root.
C2_Witness ==
  /\ status = "done" /\ FirstPassFromDead
  /\ Roots = {MainGUID}
  /\ MainGUID \in LiveSet
  /\ \E g, h \in LiveSet \ {MainGUID} :
       /\ g # h
       /\ g \in Callees(MainGUID)
       /\ h \in Callees(g)
       /\ h \notin Callees(MainGUID)

\* C3 (absent direct callee): a popped node of a Direct call whose callee
\* has no summary is skipped: the pass does not end in an error state, and
\* the finished pass has made every reachable function of the index live.
C3_AbsentDirectCalleeSkipped ==
  /\ \A i \in Popped :
       (nodes[i].reason = "StaticReferenced"
          /\ nodes[i].guid \notin DOMAIN functions) => status \notin Errors
  /\ (status = "done" /\ FirstPassFromDead)
       => (Reachable \cap DOMAIN functions) \subseteq LiveSet

\* C4 (absent main): the root set always holds the GUID of "main"; when no
\* summary declares it the root is ignored, the pass completes and marks
\* exactly the functions reachable from the preserved roots.
C4_AbsentMainIgnored ==
  /\ MainGUID \in computePreservedGUIDs
  /\ \A i \in Popped :
       (nodes[i].reason = "Preserved" /\ nodes[i].guid = MainGUID
          /\ MainGUID \notin DOMAIN functions) => status \notin Errors
  /\ (status = "done" /\ FirstPassFromDead /\ MainGUID \notin DOMAIN functions)
       => LiveSet = Closure(Roots \ {MainGUID}, {}) \cap DOMAIN functions

\* C5 (key-path preservation): after indexModule has finished on a module,
\* for every key-path property descriptor with a component, every function
\* the component references directly is preserved, and so is every function
\* registered in implementations under the slot of a method it references
\* (VTable for a class method, Witness for a protocol method).
C5_KeyPathFunctionsPreserved ==
  status = "indexed" =>
    \A i \in DOMAIN Mod.properties :
      LET component == Mod.properties[i].component
      IN component # NoComponent =>
           /\ \A j \in DOMAIN component.functions :
                functions[getGUIDFromUniqueName(component.functions[j])]
                  .preserved
           /\ \A j \in DOMAIN component.methods :
                LET method == component.methods[j]
                    slot == <<KeyPathMethodKind(method),
                              getGUIDFromUniqueName(method)>>
                IN \A Impl \in getImplementations(slot) :
                     functions[Impl].preserved

\* C6 (termination): a pass ends; no function is expanded twice, the pushes
\* of a pass are at most the roots plus the calls with their implementation
\* fan-out, and every iteration that leaves the loop running lowers Measure.
C6_Termination ==
  /\ [](status # "load" => PushBound)
  /\ [][status = "run" /\ status' = "run" => Measure' < Measure]_vars
  /\ (status = "run")
       ~> (status \in Errors \/ (status = "done" /\ Worklist = <<>>))

\* A finished pass over a call graph with a cycle and a call made twice.
C6_Witness ==
  /\ status = "done" /\ pass = "first"
  /\ \E g \in LiveSet :
       /\ g \in Closure(Callees(g), {})
       /\ \E i, j \in DOMAIN functions[g].calls :
            i # j /\ functions[g].calls[i] = functions[g].calls[j]

\* The summary an iteration has for a pushed GUID: its own, or the one the
\* lookup yielded for a GUID without summary.
Summaries(S) ==
  (S \cap DOMAIN functions)
    \cup {badGUID[g] : g \in (S \cap DOMAIN badGUID) \ DOMAIN functions}

\* The GUIDs a pass pushes, starting from S: the call targets of every
\* function it has a summary for, the functions of `stop` not expanded.
RECURSIVE Pushed(_, _)
Pushed(S, stop) ==
  LET next == S \cup UNION {Callees(g) : g \in Summaries(S) \ stop}
  IN IF next = S THEN S ELSE Pushed(next, stop)

\* C7 (determinism up to traversal order): the live set a pass finishes
\* with is fixed by the index the pass started on and by what the lookup
\* yields for the GUIDs without summary, whatever the order of the roots,
\* the calls and the implementations: it is the functions live before and
\* the functions whose summaries the pushed GUIDs have; with a summary for
\* every GUID that is the functions the call chains from the roots lead
\* to; a pass ends in an error only when it pushes a GUID without summary.
C7_Determinism ==
  /\ status = "done" =>
       /\ Pushed(Roots, liveBefore) \subseteq DOMAIN functions \cup DOMAIN badGUID
       /\ LiveSet = liveBefore \cup Summaries(Pushed(Roots, liveBefore))
       /\ Closure(Roots, liveBefore) \subseteq DOMAIN functions
            => LiveSet = liveBefore \cup Closure(Roots, liveBefore)
  /\ status \in Errors =>
       ~(Pushed(Roots, liveBefore) \subseteq DOMAIN functions)

\* A finished pass that expanded a virtual call with two implementations:
\* the slot was iterated in one of its orders.
C7_Witness ==
  /\ status = "done" /\ FirstPassFromDead
  /\ \E g \in LiveSet : \E i \in DOMAIN functions[g].calls :
       /\ functions[g].calls[i].kind # "Direct"
       /\ Cardinality(CallTargets(functions[g].calls[i])) = 2

\* C8 (root idempotence): a second pass over the index a finished pass left
\* ends without error and sets no live flag: the live set stays as it was.
C8_RootIdempotence ==
  pass = "second" =>
    /\ status \notin Errors
    /\ LiveSet = liveBefore
    /\ LiveSymbols = 0

\* A finished second pass over an index with a dead and several live
\* functions.
C8_Witness ==
  /\ pass = "second" /\ status = "done"
  /\ Cardinality(LiveSet) >= 2
  /\ DOMAIN functions \ LiveSet # {}

\* C9 (monotonicity of live): no step of a pass takes a live flag from true
\* to false, and a pass sets a function live at most once.
C9_LiveMonotone ==
  [][status = "run" =>
       \A g \in DOMAIN functions :
         /\ g \in DOMAIN functions'
         /\ functions[g].live => functions'[g].live
         /\ markCount'[g] <= 1
         /\ (markCount'[g] # markCount[g]) =>
              (~functions[g].live /\ functions'[g].live)]_vars

\* A node of an already live function was popped after the pass had set
\* that function live.
C9_Witness ==
  /\ status = "run"
  /\ trace # NullTrace
  /\ nodes[trace].guid \in DOMAIN functions
  /\ markCount[nodes[trace].guid] = 1
  /\ \E i \in Popped \ {trace} : nodes[i].guid = nodes[trace].guid

\* The node ids from a node along markedBy to the node that has no parent.
RECURSIVE MarkedByChain(_)
MarkedByChain(node) ==
  IF node = NullTrace THEN <<>>
  ELSE <<node>> \o MarkedByChain(nodes[node].markedBy)

PrintedName(g) ==
  IF functions[g].name # "" THEN functions[g].name ELSE MissingName

LivenessEntered == nodes # <<>> \/ status \in {"run", "done"} \cup Errors

\* C11 (exit codes and output): the output is written and 0 returned only
\* when every input was read and loaded and liveness completed; an empty
\* input list or a missing input gives return 1, and an input that does not
\* load gives the fatal error "Invalid module summary", each before liveness
\* is entered and with no output written.
C11_ExitAndOutput ==
  /\ (exit = Return0 \/ OutputFile # NoOutput) =>
       /\ exit = Return0 /\ OutputFile # NoOutput
       /\ InputFilenames # <<>>
       /\ opened = Len(InputFilenames)
       /\ \A i \in DOMAIN files : files[i] = "valid"
       /\ Worklist = <<>> /\ pushes >= 1
       /\ OutputFile.functions = functions
  /\ (InputFilenames = <<>> /\ status # "args") =>
       exit = Return1 /\ ~LivenessEntered /\ OutputFile = NoOutput
  /\ \A i \in DOMAIN files :
       /\ files[i] = "missing" =>
            exit = Return1 /\ ~LivenessEntered /\ OutputFile = NoOutput
       /\ files[i] = "invalid" =>
            /\ exit = InvalidModuleSummary
            /\ ~LivenessEntered /\ OutputFile = NoOutput
  /\ exit = Return1 =>
       InputFilenames = <<>> \/ files[Len(files)] = "missing"
  /\ exit = InvalidModuleSummary => files[Len(files)] = "invalid"

\* The tool returned 0 after loading two inputs and marking a callee live.
C11_Witness ==
  /\ exit = Return0
  /\ files = <<"valid", "valid">>
  /\ \E g \in DOMAIN OutputFile.functions :
       g # MainGUID /\ OutputFile.functions[g].live

\* The v-table entries whose implementation indexVTable preserves: a
\* destructor, or an override of a method another module declares.
PreservedVTableEntries ==
  {e \in UNION {Range(Mod.vtables[i]) : i \in DOMAIN Mod.vtables} :
     \/ e.method.kind \in {"Deallocator", "IVarDestroyer"}
     \/ e.kind = "Override" /\ e.method.module # ThisModule}

\* C12 (v-table entries): after indexModule every v-table entry's
\* implementation is registered under (VTable, GUID of the method) and is
\* preserved when the method is a Deallocator or IVarDestroyer or the entry
\* an Override of a method of another module; a liveness run over the
\* summary, once it has ended, has marked each such implementation live.
C12_VTableEntries ==
  /\ status \notin {"sil", IndexerCrashed} =>
       /\ \A i \in DOMAIN Mod.vtables : \A e \in Range(Mod.vtables[i]) :
            getGUIDFromUniqueName(e.impl) \in
              getImplementations(
                <<"VTable", getGUIDFromUniqueName(e.method.decl)>>)
       /\ \A e \in PreservedVTableEntries :
            functions[getGUIDFromUniqueName(e.impl)].preserved
  /\ status \in {"done"} \cup Errors =>
       \A e \in PreservedVTableEntries :
         functions[getGUIDFromUniqueName(e.impl)].live

\* The method entries with a witness, of the witness tables of the module
\* or of those among them that another module may use.
MethodWitnesses(externalOnly) ==
  UNION {{e \in Range(Mod.witnessTables[i].entries) :
            e.kind = "Method" /\ e.witness # NoWitness} :
         i \in {j \in DOMAIN Mod.witnessTables :
                  externalOnly =>
                    \/ Mod.witnessTables[j].conformanceModule # ThisModule
                    \/ Mod.witnessTables[j].protocolModule # ThisModule}}

\* The functions something other than a witness table preserves: an ObjC
\* method or a function with C references, a function a key path
\* references, the implementation of a preserved v-table entry.
PreservedOtherwise ==
  {Mod.functions[i].name :
     i \in {j \in DOMAIN Mod.functions :
              shouldPreserveFunction(Mod.functions[j])}}
    \cup UNION {Range(Mod.properties[i].component.functions) :
                  i \in {j \in DOMAIN Mod.properties :
                           Mod.properties[j].component # NoComponent}}
    \cup {e.impl : e \in PreservedVTableEntries}

\* C13 (witness tables): after indexModule every method entry with a
\* witness has its witness registered under (Witness, GUID of the
\* requirement), and preserved when the table's conformance or protocol is
\* of another module; nothing else is registered under a Witness slot, and
\* witness tables preserve nothing else.
C13_WitnessTables ==
  status = "indexed" =>
    /\ \A e \in MethodWitnesses(FALSE) :
         getGUIDFromUniqueName(e.witness) \in
           getImplementations(
             <<"Witness", getGUIDFromUniqueName(e.requirement)>>)
    /\ \A e \in MethodWitnesses(TRUE) :
         functions[getGUIDFromUniqueName(e.witness)].preserved
    /\ \A slot \in DOMAIN implementations :
         slot[1] = "Witness" =>
           \A Impl \in implementations[slot] :
             \E e \in MethodWitnesses(FALSE) :
               /\ getGUIDFromUniqueName(e.requirement) = slot[2]
               /\ getGUIDFromUniqueName(e.witness) = Impl
    /\ \A i \in DOMAIN Mod.functions :
         LET F == Mod.functions[i]
         IN functions[getGUIDFromUniqueName(F.name)].preserved =>
              \/ F.name \in PreservedOtherwise
              \/ \E e \in MethodWitnesses(TRUE) : e.witness = F.name

\* An indexed module with a witness table of this module's conformance to
\* another module's protocol, with a method entry with a witness and an
\* entry with no witness.
C13_Witness ==
  /\ status = "indexed"
  /\ \E i \in DOMAIN Mod.witnessTables :
       LET WT == Mod.witnessTables[i]
       IN /\ WT.conformanceModule = ThisModule
          /\ WT.protocolModule # ThisModule
          /\ \E j, k \in DOMAIN WT.entries :
               /\ WT.entries[j].kind = "Method"
               /\ WT.entries[j].witness # NoWitness
               /\ functions[getGUIDFromUniqueName(WT.entries[j].witness)]
                    .preserved
               /\ WT.entries[k].witness = NoWitness

\* The index of the unreached-root scenario: main with no calls, orphan
\* with one Direct call to leaf, and leaf.
UnreachedRoot(orphan, leaf) ==
  /\ orphan # leaf
  /\ DOMAIN functions = {MainGUID, orphan, leaf}
  /\ functions[MainGUID].calls = <<>>
  /\ Len(functions[orphan].calls) = 1
  /\ functions[orphan].calls[1].kind = "Direct"
  /\ functions[orphan].calls[1].callee = leaf
  /\ functions[leaf].calls = <<>>

\* C14 (unreached root): on the scenario's index, with no live flag set
\* before the run, the run ends without error, and main, orphan and leaf
\* are all live after it exactly when orphan is preserved.
C14_UnreachedRoot ==
  \A orphan, leaf \in FuncGuids \ {MainGUID} :
    (FirstPassFromDead /\ status # "load" /\ UnreachedRoot(orphan, leaf)) =>
      /\ status \notin Errors
      /\ status = "done" =>
           /\ ({MainGUID, orphan, leaf} \subseteq LiveSet)
                <=> functions[orphan].preserved
           /\ MainGUID \in LiveSet
           /\ ~functions[leaf].preserved =>
                (orphan \in LiveSet <=> leaf \in LiveSet)

\* The finished run on the scenario with orphan preserved: all three live.
C14_Witness ==
  \E orphan, leaf \in FuncGuids \ {MainGUID} :
    /\ FirstPassFromDead /\ status = "done"
    /\ UnreachedRoot(orphan, leaf)
    /\ functions[orphan].preserved /\ ~functions[leaf].preserved
    /\ LiveSet = {MainGUID, orphan, leaf}

\* What the format carries of a function map: everything but the type
\* references.
Carried(funcs) ==
  [g \in DOMAIN funcs |->
     [guid |-> funcs[g].guid, live |-> funcs[g].live,
      preserved |-> funcs[g].preserved, name |-> funcs[g].name,
      calls |-> funcs[g].calls]]

\* C15 (serialization round trip): the records written for an index are one
\* MODULE_METADATA, the function groups (a FUNC_METADATA followed by the
\* CALL_GRAPH_EDGE records of its calls, in order, with kind 0 for Direct,
\* 1 for VTable and 2 for Witness, the callee and the name), then the
\* method groups; reading them back gives the same module name, the same
\* function map (guid, live, preserved, name, calls in order with their
\* kinds, callees and names) and the same implementation map.
C15_RoundTrip ==
  /\ LET records == Serialize(ThisModule, functions, implementations)
         R == Deserialize(records)
         KindNumber(kind) ==
           CASE kind = "Direct" -> 0 [] kind = "VTable" -> 1
             [] kind = "Witness" -> 2
     IN /\ ~R.error
        /\ R.moduleName = ThisModule
        /\ Carried(R.functions) = Carried(functions)
        /\ R.implementations = implementations
        /\ \A i \in DOMAIN records :
             records[i].code = "FUNC_METADATA" =>
               LET calls == functions[ReadVBR16(records[i].guid)].calls
                   n == Len(calls)
               IN /\ i + n <= Len(records)
                  /\ \A j \in 1..n :
                       /\ records[i + j].code = "CALL_GRAPH_EDGE"
                       /\ records[i + j].kind = KindNumber(calls[j].kind)
                       /\ ReadVBR16(records[i + j].target) = calls[j].callee
                       /\ records[i + j].name = calls[j].name
                  /\ i + n < Len(records) =>
                       records[i + n + 1].code # "CALL_GRAPH_EDGE"
  /\ OutputFile # NoOutput =>
       LET R == Deserialize(OutputFile.records)
       IN /\ ~R.error
          /\ R.moduleName = OutputFile.moduleName
          /\ Carried(R.functions) = Carried(OutputFile.functions)
          /\ R.implementations = OutputFile.implementations
          /\ OutputFile.records[1].code = "MODULE_METADATA"
          /\ \A i, j \in DOMAIN OutputFile.records :
               (i < j /\ OutputFile.records[i].code
                           \in {"METHOD_METADATA", "METHOD_IMPL"})
                 => OutputFile.records[j].code
                      \in {"METHOD_METADATA", "METHOD_IMPL"}
  /\ status = "reloaded" =>
       /\ Carried(functions) = Carried(OutputFile.functions)
       /\ implementations = OutputFile.implementations
  /\ status # "invalid"

\* A file read back that holds a live preserved function, a dead one, a
\* virtual call and a slot with an implementation.
C15_Witness ==
  /\ status = "reloaded"
  /\ \E g \in DOMAIN functions : functions[g].live /\ functions[g].preserved
  /\ \E g \in DOMAIN functions : ~functions[g].live
  /\ \E g \in DOMAIN functions : \E i \in DOMAIN functions[g].calls :
       /\ functions[g].calls[i].kind # "Direct"
       /\ functions[g].calls[i].name # ""
  /\ \E slot \in DOMAIN implementations : implementations[slot] # {}

\* C16 (input live bits): whatever live bits the loaded records carried,
\* when the run ends every function of the index reachable from a root is
\* live.
C16_LiveBitsIgnored ==
  status = "done" => (Reachable \cap DOMAIN functions) \subseteq LiveSet

\* How many nodes for `guid` with the reason the calls of a function are to
\* push: one per Direct call to it (StaticReferenced), one per Witness or
\* VTable call whose slot of the same kind holds it (IndirectReferenced).
ExpectedPushes(calls, guid, reason) ==
  SumSeq([i \in DOMAIN calls |->
            LET Call == calls[i]
                slot == <<Call.kind, Call.callee>>
            IN IF Call.kind = "Direct"
               THEN Bit(reason = "StaticReferenced" /\ Call.callee = guid)
               ELSE Bit(/\ reason = "IndirectReferenced"
                        /\ slot \in DOMAIN implementations
                        /\ guid \in implementations[slot])])

\* C17 (virtual calls): the step that marks a function live pushes, for
\* each of its Witness or VTable calls, exactly one IndirectReferenced node
\* per GUID in implementations[(kind, callee)] of the call's own kind, each
\* with the current node as parent; a missing or empty slot pushes nothing,
\* and the step does not end the run.
C17_VirtualCallPushes ==
  [][(status = "run" /\ functions' # functions) =>
       LET marked == CHOOSE g \in DOMAIN functions :
                       ~functions[g].live /\ functions'[g].live
           calls == functions[marked].calls
           new == SubSeq(nodes', Len(nodes) + 1, Len(nodes'))
       IN /\ status' = "run"
          /\ \A i \in DOMAIN new : new[i].markedBy = trace'
          /\ \A guid \in FuncGuids, reason \in Reasons :
               Cardinality({i \in DOMAIN new :
                              new[i].guid = guid /\ new[i].reason = reason})
                 = ExpectedPushes(calls, guid, reason)
          /\ Worklist' = SubSeq(Worklist, 1, Len(Worklist) - 1)
               \o [i \in DOMAIN new |-> Len(nodes) + i]]_vars

\* A function with a Witness call was marked live while the declaration had
\* an implementation under its Witness slot and another under its VTable
\* slot: one node was pushed, for the Witness implementation.
C17_Witness ==
  /\ status = "run"
  /\ trace # NullTrace
  /\ nodes[trace].guid \in LiveSet
  /\ \E d \in DeclGuids :
       /\ Len(functions[nodes[trace].guid].calls) = 1
       /\ functions[nodes[trace].guid].calls[1].kind = "Witness"
       /\ functions[nodes[trace].guid].calls[1].callee = d
       /\ <<"Witness", d>> \in DOMAIN implementations
       /\ <<"VTable", d>> \in DOMAIN implementations
       /\ implementations[<<"Witness", d>>] # {}
       /\ implementations[<<"VTable", d>>] # {}
       /\ implementations[<<"Witness", d>>]
            \cap implementations[<<"VTable", d>>] = {}
       /\ Len(nodes) >= 2
       /\ nodes[Len(nodes)].markedBy = trace
       /\ nodes[Len(nodes)].reason = "IndirectReferenced"

\* The functions the current pass has set live, and the types they refer to.
MarkedLive == LiveSet \ liveBefore
TypesOfMarkedLive == UNION {Range(functions[g].typeRefs) : g \in MarkedLive}

\* C18 (used types): in one pass markUsedType is called at most once per
\* type GUID, and when the pass has finished the types it marked are exactly
\* the types referenced by a function the pass marked live.
C18_UsedTypes ==
  /\ \A t \in TypeGuids : typeMarks[t] <= 1
  /\ status = "done" =>
       /\ {t \in TypeGuids : typeMarks[t] = 1} = TypesOfMarkedLive
       /\ UseMarkedTypes = TypesOfMarkedLive
       /\ TypesOfMarkedLive \subseteq usedTypes

\* A finished pass that met one type in two references of the functions it
\* marked live, and left unmarked a type only a dead function refers to.
C18_Witness ==
  /\ status = "done" /\ pass = "first"
  /\ \E t \in TypesOfMarkedLive :
       SumOver(MarkedLive,
               [g \in MarkedLive |->
                  Cardinality({i \in DOMAIN functions[g].typeRefs :
                                 functions[g].typeRefs[i] = t})]) >= 2
  /\ \E g \in DOMAIN functions \ LiveSet :
       \E t \in Range(functions[g].typeRefs) : typeMarks[t] = 0

\* C19 (frame of the liveness run): a step of the run changes nothing of the
\* index but live flags and usedTypes: the keys of functions, each
\* function's preserved flag, guid, name and calls, the implementations map
\* and with them the root set stay as they are; the root set after the run
\* is the set the run was seeded with.
C19_Frame ==
  /\ [][status' \in {"run", "done"} \cup Errors =>
          /\ DOMAIN functions' = DOMAIN functions
          /\ \A g \in DOMAIN functions :
               /\ functions'[g].preserved = functions[g].preserved
               /\ functions'[g].guid = functions[g].guid
               /\ functions'[g].name = functions[g].name
               /\ functions'[g].calls = functions[g].calls
               /\ functions'[g].typeRefs = functions[g].typeRefs
          /\ implementations' = implementations
          /\ Roots' = Roots]_vars
  /\ [](status \in {"run", "done"} \cup Errors =>
          Roots = {nodes[i].guid :
                     i \in {j \in DOMAIN nodes :
                              nodes[j].reason = "Preserved"}})

\* A finished pass that set live a function that is not preserved and has a
\* virtual call with an implementation, and marked a type used.
C19_Witness ==
  /\ status = "done"
  /\ usedTypes # {}
  /\ \E g \in MarkedLive :
       /\ ~functions[g].preserved
       /\ \E i \in DOMAIN functions[g].calls :
            /\ functions[g].calls[i].kind # "Direct"
            /\ CallTargets(functions[g].calls[i]) # {}

\* C20 as stated (retained trace node): in a pass over an index with no
\* live flag set, the node retained for the dump changes only in a step that
\* marks the function of the trace symbol live; a later pop of a node of
\* the same, already live function does not replace it.
C20_MarkingNodeRetained ==
  [][(status = "run" /\ FirstPassFromDead /\ dumpTarget' # dumpTarget) =>
       \E g \in DOMAIN functions :
         /\ functions[g].name = LTOPrintLiveTrace
         /\ ~functions[g].live
         /\ functions'[g].live]_vars

\* C20 as amended: the node retained is the node popped last among those
\* the loop named with the trace symbol: every pop of a node whose summary
\* has that name, also of one that is already live, replaces the retained
\* node, and no other step changes it.
C20_LastPoppedNodeRetained ==
  /\ [][(status = "run" /\ status' = "run") =>
          IF /\ nodes'[trace'].symbol # ""
             /\ nodes'[trace'].symbol = LTOPrintLiveTrace
          THEN dumpTarget' = trace'
          ELSE dumpTarget' = dumpTarget]_vars
  /\ [][(status = "run" /\ status' # "run") =>
          dumpTarget' = dumpTarget]_vars
  /\ [](dumpTarget # NullTrace =>
          /\ dumpTarget \in Popped
          /\ nodes[dumpTarget].symbol = LTOPrintLiveTrace
          /\ \E g \in LiveSet : functions[g].name = LTOPrintLiveTrace)

\* The retained node is a node popped after another node had marked its
\* function live in this pass: the trace symbol was reached on two paths.
C20_Witness ==
  /\ status = "run" /\ FirstPassFromDead
  /\ dumpTarget # NullTrace
  /\ dumpTarget = trace
  /\ markCount[nodes[trace].guid] = 1
  /\ \E i \in Popped \ {trace} :
       /\ nodes[i].guid = nodes[trace].guid
       /\ nodes[i].markedBy # nodes[trace].markedBy

====
